---- MODULE Spec2Model ----
(***************************************************************************)
(* Seam carving engine of seam_carving.py: forward energy, minimum-seam    *)
(* search, seam removal, seam insertion and the seam_carve driver.         *)
(*                                                                         *)
(* Conventions.  A numpy array is a TLA+ sequence (of sequences); the      *)
(* code's 0-based index k is position k+1 of the sequence (At).  Column    *)
(* indices held in seams and in the backtrack grid keep the code's 0-based *)
(* values.  An image is [h, w, px]: its shape and its h rows of w pixels   *)
(* of 3 samples.  A float64 sample v is held as the integer v * Scale, so  *)
(* that the halves produced by np.average stay exact.                      *)
(***************************************************************************)
EXTENDS Integers, Sequences, FiniteSets, TLC

\* ------------------------------------------------------------------- state
VARIABLES
    pc,            \* the position of the program
    im,            \* the image argument of the operation under way
    dx,            \* seam_carve's width delta
    output,        \* the working image / the result image
    temp_im,       \* seams_insertion's shrinking copy
    seams_record,  \* seams_insertion's list of pending seams
    count,         \* iterations the running loop still has to make
    seam_idx,      \* the seam of the last search, or add_seam's argument
    boolmask       \* the mask of the last search, or remove_seam's argument

vars == <<pc, im, dx, output, temp_im, seams_record, count, seam_idx, boolmask>>

\* ------------------------------------------------------------------ bounds
\* the most pixels (h * w) of an input image, per specification
\* seam_carve (Spec)
MaxPixels == 9
\* get_minimum_seam (SpecSeam)
SeamMaxPixels == 10
\* remove_seam (SpecMask): the image and the mask
MaskMaxPixels == 8
\* add_seam (SpecAdd)
AddMaxPixels == 8

\* ------------------------------------------------------------- constants
\* np.zeros((h, w + 1, 3)), range(3), [boolmask] * 3: the channel count
Channels == 3

RECURSIVE Pow2(_)
Pow2(n) == IF n = 0 THEN 1 ELSE 2 * Pow2(n - 1)

\* One unit of a sample: each add_seam halves at most once more, and
\* seams_insertion commits at most dx <= w <= MaxPixels seams.
Scale == Pow2(MaxPixels)

\* ------------------------------------------------------------ numpy helpers
Min(a, b) == IF a < b THEN a ELSE b
Abs(x) == IF x < 0 THEN -x ELSE x

\* an array built elementwise, held as a finished tuple (evaluated once)
Array(f) == SubSeq(f, 1, Len(f))

\* a[k] for a 0-based index k
At(a, k) == a[k + 1]

\* a[lo:hi] for 0 <= lo: numpy clips a slice to the array
Slice(a, lo, hi) == SubSeq(a, lo + 1, Min(hi, Len(a)))

\* a[lo:]
SliceFrom(a, lo) == SubSeq(a, lo + 1, Len(a))

\* np.roll(a, 1): element k moves to k+1, the last wraps to the front
RollRight(a) == Array([k \in 1..Len(a) |-> a[((k - 2) % Len(a)) + 1]])

\* np.roll(a, -1): element k moves to k-1, the first wraps to the end
RollLeft(a) == Array([k \in 1..Len(a) |-> a[(k % Len(a)) + 1]])

\* np.argmin as it would be if ties went to the last minimum
argminLast(a) == (CHOOSE k \in 1..Len(a) : /\ \A n \in 1..Len(a) : a[k] <= a[n]
                                           /\ \A n \in (k + 1)..Len(a) : a[n] > a[k]) - 1

\* np.argmin(a): the 0-based index of the first minimum
argmin(a) == (CHOOSE k \in 1..Len(a) : /\ \A n \in 1..Len(a) : a[k] <= a[n]
                                       /\ \A n \in 1..(k - 1) : a[n] > a[k]) - 1

RECURSIVE SumSeq(_)
SumSeq(a) == IF a = <<>> THEN 0 ELSE a[1] + SumSeq(Tail(a))

\* np.average(a) of a non-empty slice of samples
average(a) == SumSeq(a) \div Len(a)

\* list.reverse()
Reverse(a) == Array([k \in 1..Len(a) |-> a[Len(a) + 1 - k]])

\* ------------------------------------------------------------------ images
Image(h, w, px) == [h |-> h, w |-> w, px |-> px]

\* the pixels an input image is drawn from (BGR samples)
Palette == {<<10 * Scale, 20 * Scale, 30 * Scale>>, <<200 * Scale, 100 * Scale, 50 * Scale>>}

Images(h, w) == {Image(h, w, px) : px \in [1..h -> [1..w -> Palette]]}

\* the shapes (h, w) of the images of at most n pixels, h >= 1 and w >= 1
Shapes(n) == {s \in (1..n) \X (1..n) : s[1] * s[2] <= n}

NoImage == Image(0, 0, <<>>)

\* ------------------------------------------------------------------ energy
\* cv2.cvtColor(image.astype(np.uint8), cv2.COLOR_BGR2GRAY) of one pixel:
\* astype truncates the sample, OpenCV rounds the 15-bit fixed-point sum
BGR2GRAY(p) ==
    LET b == p[1] \div Scale
        g == p[2] \div Scale
        r == p[3] \div Scale
    IN  (3735 * b + 19235 * g + 9798 * r + 16384) \div 32768

GrayImage(image) == Array([i \in 1..image.h |-> Array([j \in 1..image.w |-> BGR2GRAY(image.px[i][j])])])

\* |a - b| of two rows
AbsDiff(a, b) == Array([k \in 1..Len(a) |-> Abs(a[k] - b[k])])

AddRows(a, b) == Array([k \in 1..Len(a) |-> a[k] + b[k]])

\* cU[i], cL[i], cR[i] for the 1-based row i of the gray image g
NeighbourCosts(g, i) ==
    LET U == g[((i - 2) % Len(g)) + 1]
        L == RollRight(g[i])
        R == RollLeft(g[i])
        cU == AbsDiff(R, L)
    IN  <<cU, AddRows(AbsDiff(U, L), cU), AddRows(AbsDiff(U, R), cU)>>

\* mULR = np.array([mU, mL, mR]); mULR += cULR
ForwardSums(cULR, mU) ==
    <<AddRows(mU, cULR[1]), AddRows(RollRight(mU), cULR[2]), AddRows(RollLeft(mU), cULR[3])>>

\* np.argmin(mULR, axis=0)
ForwardArgmins(mULR) ==
    Array([j \in 1..Len(mULR[1]) |-> argmin(<<mULR[1][j], mULR[2][j], mULR[3][j]>>)])

\* m[i] = np.choose(argmins, mULR); energy[i] = np.choose(argmins, cULR)
ForwardChoose(cULR, mULR, argmins) ==
    [m |-> Array([j \in 1..Len(argmins) |-> At(mULR, argmins[j])[j]]),
     energy |-> Array([j \in 1..Len(argmins) |-> At(cULR, argmins[j])[j]])]

ForwardPick(cULR, mULR) == ForwardChoose(cULR, mULR, ForwardArgmins(mULR))

ForwardRowFrom(cULR, mU) == ForwardPick(cULR, ForwardSums(cULR, mU))

\* one pass of the loop body for the 1-based row i, from m[i-1]:
\* the new m[i] and energy[i]
ForwardRow(g, i, mU) == ForwardRowFrom(NeighbourCosts(g, i), mU)

RECURSIVE ForwardLoop(_, _, _, _)
\* the end of a pass: r holds the row's m[i] and energy[i]
ForwardNext(g, i, r, energy) == ForwardLoop(g, i + 1, r.m, Append(energy, r.energy))

ForwardLoop(g, i, mU, energy) ==
    IF i > Len(g) THEN energy ELSE ForwardNext(g, i, ForwardRow(g, i, mU), energy)

Zeros(n) == Array([k \in 1..n |-> 0])

forward_energy(image) ==
    IF image.h = 0 THEN <<>>
    ELSE ForwardLoop(GrayImage(image), 2, Zeros(image.w), <<Zeros(image.w)>>)

\* --------------------------------------------------------------- seam search
\* the loop body as it would be if the window's offset j - 1 were left out
SeamCellNoOffset(Mprev, j) ==
    IF j = 0
    THEN [backtrack |-> argmin(Slice(Mprev, j, j + 2)) + j,
          min_energy |-> At(Mprev, argmin(Slice(Mprev, j, j + 2)) + j)]
    ELSE [backtrack |-> argmin(Slice(Mprev, j - 1, j + 2)),
          min_energy |-> At(Mprev, argmin(Slice(Mprev, j - 1, j + 2)))]

\* the loop body for one cell: 0-based column j, Mprev = M[i - 1];
\* the backtrack entry and min_energy
SeamCell(Mprev, j) ==
    IF j = 0
    THEN LET idx == argmin(Slice(Mprev, j, j + 2))
         IN  [backtrack |-> idx + j, min_energy |-> At(Mprev, idx + j)]
    ELSE LET idx == argmin(Slice(Mprev, j - 1, j + 2))
         IN  [backtrack |-> idx + j - 1, min_energy |-> At(Mprev, idx + j - 1)]

\* "populate DP matrix": rows i..h of M and backtrack, appended to the rows
\* already final (i is the 1-based row)
RECURSIVE PopulateDP(_, _, _, _)
\* the end of row i: M[i, j] += min_energy and backtrack[i, j] of its cells
PopulateNext(energy, i, M, backtrack, cells) ==
    PopulateDP(energy, i + 1,
               Append(M, Array([j \in 1..Len(cells) |-> energy[i][j] + cells[j].min_energy])),
               Append(backtrack, Array([j \in 1..Len(cells) |-> cells[j].backtrack])))

PopulateDP(energy, i, M, backtrack) ==
    IF i > Len(energy) THEN [M |-> M, backtrack |-> backtrack]
    ELSE PopulateNext(energy, i, M, backtrack,
                      Array([j \in 1..Len(energy[i]) |-> SeamCell(M[i - 1], j - 1)]))

\* the walk as it would be if j moved to backtrack[i, j] before the mask is
\* marked
RECURSIVE BacktrackPathMarkLate(_, _, _, _, _)
BacktrackPathMarkLate(backtrack, i, j, seam, mask) ==
    IF i < 1 THEN [seam_idx |-> Reverse(seam), boolmask |-> mask]
    ELSE BacktrackPathMarkLate(backtrack, i - 1, At(backtrack[i], j), Append(seam, j),
                               [mask EXCEPT ![i][At(backtrack[i], j) + 1] = FALSE])

\* "backtrack to find path": from the 1-based row i and the 0-based column j
\* upwards, seam in the order of the appends (bottom row first); after the
\* loop, seam_idx.reverse() and the return
RECURSIVE BacktrackPath(_, _, _, _, _)
BacktrackPath(backtrack, i, j, seam, mask) ==
    IF i < 1 THEN [seam_idx |-> Reverse(seam), boolmask |-> mask]
    ELSE BacktrackPath(backtrack, i - 1, At(backtrack[i], j), Append(seam, j),
                       [mask EXCEPT ![i][j + 1] = FALSE])

Ones(h, w) == Array([i \in 1..h |-> Array([j \in 1..w |-> TRUE])])

\* M and backtrack after the DP loop over the grid M = energyfn(im)
CumulativeMap(energy) == PopulateDP(energy, 2, <<energy[1]>>, <<Zeros(Len(energy[1]))>>)

\* j = np.argmin(M[-1]) and the walk up the backtrack grid
SeamOf(dp, h, w) == BacktrackPath(dp.backtrack, h, argmin(dp.M[h]), <<>>, Ones(h, w))

get_minimum_seam(image) == SeamOf(CumulativeMap(forward_energy(image)), image.h, image.w)

\* ----------------------------------------------------------- seam removal
\* np.stack([boolmask] * 3, axis=2), then im[boolmask3c]: the samples kept,
\* in C order (row, column, channel)
RECURSIVE MaskedSamples(_, _, _, _, _)
MaskedSamples(px, mask, i, j, acc) ==
    IF i > Len(mask) THEN acc
    ELSE IF j > Len(mask[i]) THEN MaskedSamples(px, mask, i + 1, 1, acc)
    ELSE MaskedSamples(px, mask, i, j + 1,
                       IF mask[i][j] THEN acc \o px[i][j] ELSE acc)

\* reshape as it would be in column-major (Fortran) order
ReshapeColumnMajor(a, h, w) ==
    Array([i \in 1..h |-> Array([j \in 1..w |->
        Array([c \in 1..Channels |-> a[((j - 1) * h + (i - 1)) * Channels + c]])])])

\* a.reshape((h, w, 3)) of a flat sequence of h * w * 3 samples
Reshape(a, h, w) ==
    Array([i \in 1..h |-> Array([j \in 1..w |->
        Array([c \in 1..Channels |-> a[((i - 1) * w + (j - 1)) * Channels + c]])])])

MaskShapeMatches(image, mask) ==
    /\ Len(mask) = image.h
    /\ \A i \in 1..Len(mask) : Len(mask[i]) = image.w

\* remove_seam as it would raise if it checked each row of the mask
remove_seam_raises_per_row(image, mask) ==
    \/ ~MaskShapeMatches(image, mask)
    \/ \E i \in 1..Len(mask) : Cardinality({j \in 1..Len(mask[i]) : ~mask[i][j]}) # 1

\* remove_seam raises: the boolean index does not match the image's shape
\* (IndexError), or the kept samples do not fill (h, w - 1, 3) (ValueError)
remove_seam_raises(image, mask) ==
    \/ ~MaskShapeMatches(image, mask)
    \/ Len(MaskedSamples(image.px, mask, 1, 1, <<>>)) # image.h * (image.w - 1) * Channels

remove_seam(image, mask) ==
    Image(image.h, image.w - 1, Reshape(MaskedSamples(image.px, mask, 1, 1, <<>>), image.h, image.w - 1))

\* --------------------------------------------------------- seam insertion
\* output[row, lo:, ch] = vals: the tail of the row is replaced
AssignFrom(out, lo, vals) == SubSeq(out, 1, lo) \o vals

\* output[row, :hi, ch] = vals
AssignUpTo(out, hi, vals) == vals \o SubSeq(out, hi + 1, Len(out))

\* output[row, k, ch] = v
AssignAt(out, k, v) == [out EXCEPT ![k + 1] = v]

\* the three assignments of one (row, ch) pass, on the samples im[row, :, ch]
\* and the zeroed output[row, :, ch]
AddSeamChannel(samples, col) ==
    LET zeros == Zeros(Len(samples) + 1)
    IN  IF col = 0
        THEN LET p == average(Slice(samples, col, col + 2))
                 o1 == AssignAt(zeros, col, At(samples, col))
                 o2 == AssignAt(o1, col + 1, p)
             IN  AssignFrom(o2, col + 1, SliceFrom(samples, col))
        ELSE LET p == average(Slice(samples, col - 1, col + 1))
                 o1 == AssignUpTo(zeros, col, Slice(samples, 0, col))
                 o2 == AssignAt(o1, col, p)
             IN  AssignFrom(o2, col + 1, SliceFrom(samples, col))

AddSeamRow(pixels, col) ==
    LET chan == Array([c \in 1..Channels |-> AddSeamChannel(Array([j \in 1..Len(pixels) |-> pixels[j][c]]), col)])
    IN  Array([j \in 1..(Len(pixels) + 1) |-> Array([c \in 1..Channels |-> chan[c][j]])])

\* add_seam as it would be with output = np.zeros((h, w, 3)): no new column
add_seam_no_growth(image, seam) ==
    Image(image.h, image.w,
          Array([row \in 1..image.h |-> SubSeq(AddSeamRow(image.px[row], seam[row]), 1, image.w)]))

\* add_seam raises IndexError: a column past the end of the output row
add_seam_raises(image, seam) == \E row \in 1..image.h : seam[row] > image.w

add_seam(image, seam) ==
    Image(image.h, image.w + 1, Array([row \in 1..image.h |-> AddSeamRow(image.px[row], seam[row])]))

\* ------------------------------------- get_minimum_seam on its own: SpecSeam
SeamInit ==
    /\ pc = "call"
    /\ \E s \in Shapes(SeamMaxPixels) : im \in Images(s[1], s[2])
    /\ dx = 0
    /\ output = NoImage
    /\ temp_im = NoImage
    /\ seams_record = <<>>
    /\ count = 0
    /\ seam_idx = <<>>
    /\ boolmask = <<>>

CallGetMinimumSeam ==
    /\ pc = "call"
    /\ \E r \in {get_minimum_seam(im)} :
           /\ seam_idx' = r.seam_idx
           /\ boolmask' = r.boolmask
    /\ pc' = "return"
    /\ UNCHANGED <<im, dx, output, temp_im, seams_record, count>>

SeamNext == CallGetMinimumSeam

SpecSeam == SeamInit /\ [][SeamNext]_vars

\* ------------------------------------------------------- reference notions
\* every top-to-bottom path of an h x w grid: one 0-based column per row,
\* consecutive columns at most 1 apart
Paths(h, w) ==
    {p \in [1..h -> 0..(w - 1)] : \A i \in 1..(h - 1) : Abs(p[i + 1] - p[i]) <= 1}

RECURSIVE PathCostFrom(_, _, _)
PathCostFrom(energy, p, i) ==
    IF i > Len(p) THEN 0 ELSE At(energy[i], p[i]) + PathCostFrom(energy, p, i + 1)

\* the sum of the energy grid's values along a path
PathCost(energy, p) == PathCostFrom(energy, p, 1)

SetMin(S) == CHOOSE x \in S : \A y \in S : x <= y

\* the least cost of a path that ends in the bottom row at column j
BestEndingAt(energy, h, w, j) ==
    SetMin({PathCost(energy, p) : p \in {q \in Paths(h, w) : q[h] = j}})

\* C1: the seam get_minimum_seam returns has one entry per image row, every
\* entry is a column of the image, and the entries of consecutive rows
\* differ by at most 1.
C1_SeamWellFormed ==
    pc = "return" =>
        /\ Len(seam_idx) = im.h
        /\ \A i \in 1..Len(seam_idx) : seam_idx[i] \in 0..(im.w - 1)
        /\ \A i \in 1..(Len(seam_idx) - 1) : Abs(seam_idx[i + 1] - seam_idx[i]) <= 1

\* a returned seam that changes column and reaches the last column
C1_Witness ==
    /\ pc = "return"
    /\ im.h >= 3
    /\ seam_idx[1] # seam_idx[2]
    /\ seam_idx[3] = im.w - 1

\* C2: the mask get_minimum_seam returns has the image's height and width,
\* and each of its rows is false exactly at the column the seam records for
\* that row, and true elsewhere.
C2_MaskMatchesSeam ==
    pc = "return" =>
        /\ Len(boolmask) = im.h
        /\ \A i \in 1..Len(boolmask) :
              /\ Len(boolmask[i]) = im.w
              /\ Cardinality({j \in 1..im.w : ~boolmask[i][j]}) = 1
              /\ ~At(boolmask[i], seam_idx[i])

C2_Witness ==
    /\ pc = "return"
    /\ im.h >= 2
    /\ im.w >= 3
    /\ ~boolmask[1][2]
    /\ ~boolmask[2][3]

\* C8: the seam get_minimum_seam returns costs, summed over the energy grid,
\* the least any top-to-bottom path costs; and it ends at the lowest column
\* among the bottom-row columns that a least-cost path can end at.
C8_SeamIsMinimal ==
    pc = "return" =>
        LET energy == forward_energy(im)
            best == [j \in 1..im.w |-> BestEndingAt(energy, im.h, im.w, j - 1)]
        IN  /\ \A p \in Paths(im.h, im.w) : PathCost(energy, seam_idx) <= PathCost(energy, p)
            /\ seam_idx[im.h] = SetMin({j \in 1..im.w : \A k \in 1..im.w : best[j] <= best[k]}) - 1

\* a search where the costs differ between paths and the minimum is not at
\* column 0
C8_Witness ==
    /\ pc = "return"
    /\ im.h >= 3
    /\ seam_idx[im.h] > 0
    /\ \E p \in Paths(im.h, im.w) :
          PathCost(forward_energy(im), p) > PathCost(forward_energy(im), seam_idx)

\* ------------------------------------------------ remove_seam on its own: SpecMask
\* remove_seam never reads a sample's value, so the inputs are the images
\* whose samples all differ: sample (i, j, c) holds its own C-order rank
RankImage(h, w) ==
    Image(h, w, Array([i \in 1..h |-> Array([j \in 1..w |->
        Array([c \in 1..Channels |-> (((i - 1) * w + (j - 1)) * Channels + c) * Scale])])]))

\* every boolean grid of a shape
Masks(h, w) == [1..h -> [1..w -> BOOLEAN]]

MaskInit ==
    /\ pc = "call"
    /\ \E s \in Shapes(MaskMaxPixels) : im = RankImage(s[1], s[2])
    /\ \E s \in Shapes(MaskMaxPixels) : boolmask \in Masks(s[1], s[2])
    /\ dx = 0
    /\ output = NoImage
    /\ temp_im = NoImage
    /\ seams_record = <<>>
    /\ count = 0
    /\ seam_idx = <<>>

CallRemoveSeam ==
    /\ pc = "call"
    /\ IF remove_seam_raises(im, boolmask)
       THEN /\ pc' = "raise"
            /\ output' = NoImage
       ELSE /\ pc' = "return"
            /\ output' = remove_seam(im, boolmask)
    /\ UNCHANGED <<im, dx, temp_im, seams_record, count, seam_idx, boolmask>>

MaskNext == CallRemoveSeam

SpecMask == MaskInit /\ [][MaskNext]_vars

\* the 1-based columns of a mask row that are false
FalseColumns(maskrow) == {j \in 1..Len(maskrow) : ~maskrow[j]}

\* a row without its 1-based element k
DropAt(row, k) == SubSeq(row, 1, k - 1) \o SubSeq(row, k + 1, Len(row))

OneFalsePerRow(mask) == \A i \in 1..Len(mask) : Cardinality(FalseColumns(mask[i])) = 1

FalseCount(mask) == Cardinality({c \in (1..Len(mask)) \X (1..Len(mask[1])) : ~mask[c[1]][c[2]]})

\* C4: for a mask of the image's shape with exactly one false per row,
\* remove_seam returns an image of the same height, of width - 1 and of 3
\* channels whose every row is the input row without the masked-out pixel,
\* the other pixels in their order.
C4_RemoveDropsMaskedPixel ==
    (pc # "call" /\ MaskShapeMatches(im, boolmask) /\ OneFalsePerRow(boolmask)) =>
        /\ pc = "return"
        /\ output.h = im.h
        /\ output.w = im.w - 1
        /\ Len(output.px) = im.h
        /\ \A i \in 1..im.h :
              /\ output.px[i] = DropAt(im.px[i], CHOOSE j \in FalseColumns(boolmask[i]) : TRUE)
              /\ \A j \in 1..Len(output.px[i]) : Len(output.px[i][j]) = Channels

\* a removal from an image of 2 rows and 3 columns, off the straight line
C4_Witness ==
    /\ pc = "return"
    /\ im.h = 2
    /\ im.w = 3
    /\ OneFalsePerRow(boolmask)
    /\ ~boolmask[1][2]
    /\ ~boolmask[2][3]

AddInit ==
    /\ pc = "call"
    /\ \E s \in Shapes(AddMaxPixels) :
          /\ im \in Images(s[1], s[2])
          /\ seam_idx \in [1..s[1] -> 0..(s[2] - 1)]
    /\ dx = 0
    /\ output = NoImage
    /\ temp_im = NoImage
    /\ seams_record = <<>>
    /\ count = 0
    /\ boolmask = <<>>

CallAddSeam ==
    /\ pc = "call"
    /\ IF add_seam_raises(im, seam_idx)
       THEN /\ pc' = "raise"
            /\ output' = NoImage
       ELSE /\ pc' = "return"
            /\ output' = add_seam(im, seam_idx)
    /\ UNCHANGED <<im, dx, temp_im, seams_record, count, seam_idx, boolmask>>

AddNext == CallAddSeam

SpecAdd == AddInit /\ [][AddNext]_vars

\* the channel-wise average of two pixels
PixelAverage(a, b) == [c \in 1..Channels |-> (a[c] + b[c]) \div 2]

\* a row with pixel p put in front of its 0-based position k
InsertAt(row, k, p) == SubSeq(row, 1, k) \o <<p>> \o SubSeq(row, k + 1, Len(row))

\* C9 as stated: on an image of width >= 2 every output row of add_seam is
\* the input row plus one new pixel right before or right after the seam
\* pixel (column c), and the new pixel is the average of the seam pixel and
\* its right neighbour when c = 0, its left neighbour when c > 0.
C9_Original ==
    (pc = "return" /\ im.w >= 2) =>
        \A row \in 1..im.h :
            LET c == seam_idx[row]
                p == IF c = 0 THEN PixelAverage(At(im.px[row], c), At(im.px[row], c + 1))
                     ELSE PixelAverage(At(im.px[row], c), At(im.px[row], c - 1))
            IN  \E k \in {c, c + 1} : output.px[row] = InsertAt(im.px[row], k, p)

\* ------------------------------------------------------ seam_carve: Spec
\* arrays of no pixels: nothing in the code keeps them out of seam_carve
EmptyImages ==
    {Image(0, w, <<>>) : w \in 0..MaxPixels}
        \cup {Image(h, 0, Array([i \in 1..h |-> <<>>])) : h \in 1..MaxPixels}

Init ==
    /\ pc = "seam_carve"
    /\ \/ \E s \in Shapes(MaxPixels) : im \in Images(s[1], s[2])
       \/ im \in EmptyImages
    /\ dx \in (-(MaxPixels + 1))..(MaxPixels + 1)
    /\ output = NoImage
    /\ temp_im = NoImage
    /\ seams_record = <<>>
    /\ count = 0
    /\ seam_idx = <<>>
    /\ boolmask = <<>>

\* the assertion as it would be with w + dx >= 0
CarveAssertionLoose(image, d) == image.h > 0 /\ image.w + d >= 0 /\ d <= image.w

\* assert h > 0 and w + dx > 0 and dx <= w
CarveAssertion(image, d) == image.h > 0 /\ image.w + d > 0 /\ d <= image.w

\* seam_carve up to the call it dispatches to
seam_carve ==
    /\ pc = "seam_carve"
    /\ IF ~CarveAssertion(im, dx)
       THEN /\ pc' = "AssertionError"
            /\ UNCHANGED <<output, temp_im, seams_record, count>>
       ELSE /\ output' = im
            /\ IF dx < 0
               THEN /\ pc' = "seams_removal"
                    /\ count' = -dx
                    /\ UNCHANGED <<temp_im, seams_record>>
               ELSE IF dx > 0
               THEN /\ pc' = "discover"
                    /\ count' = dx
                    /\ temp_im' = im
                    /\ seams_record' = <<>>
               ELSE /\ pc' = "done"
                    /\ UNCHANGED <<temp_im, seams_record, count>>
    /\ UNCHANGED <<im, dx, seam_idx, boolmask>>

\* one iteration of the loop of seams_removal
RemovalStep ==
    /\ pc = "seams_removal"
    /\ \E r \in {get_minimum_seam(output)} :
           IF remove_seam_raises(output, r.boolmask)
           THEN /\ pc' = "raise"
                /\ UNCHANGED <<output, count, seam_idx, boolmask>>
           ELSE /\ output' = remove_seam(output, r.boolmask)
                /\ seam_idx' = r.seam_idx
                /\ boolmask' = r.boolmask
                /\ count' = count - 1
                /\ pc' = IF count = 1 THEN "done" ELSE "seams_removal"
    /\ UNCHANGED <<im, dx, temp_im, seams_record>>

\* the loop body as it would be if the seam were searched again after the
\* removal and that one recorded
DiscoverIterationLate(temp, record, r) ==
    [seam_idx |-> r.seam_idx,
     boolmask |-> r.boolmask,
     seams_record |-> Append(record, IF temp.w > 1
                                     THEN get_minimum_seam(remove_seam(temp, r.boolmask)).seam_idx
                                     ELSE r.seam_idx),
     raises |-> remove_seam_raises(temp, r.boolmask),
     temp_im |-> remove_seam(temp, r.boolmask)]

\* the body of the first loop of seams_insertion, on temp_im and
\* seams_record, r being what get_minimum_seam(temp_im) returned
DiscoverIteration(temp, record, r) ==
    [seam_idx |-> r.seam_idx,
     boolmask |-> r.boolmask,
     seams_record |-> Append(record, r.seam_idx),
     raises |-> remove_seam_raises(temp, r.boolmask),
     temp_im |-> remove_seam(temp, r.boolmask)]

\* one iteration of the first loop of seams_insertion
DiscoverStep ==
    /\ pc = "discover"
    /\ \E d \in {DiscoverIteration(temp_im, seams_record, get_minimum_seam(temp_im))} :
           IF d.raises
           THEN /\ pc' = "raise"
                /\ UNCHANGED <<temp_im, seams_record, count, seam_idx, boolmask>>
           ELSE /\ temp_im' = d.temp_im
                /\ seams_record' = d.seams_record
                /\ seam_idx' = d.seam_idx
                /\ boolmask' = d.boolmask
                /\ count' = count - 1
                /\ pc' = IF count = 1 THEN "reverse" ELSE "discover"
    /\ UNCHANGED <<im, dx, output>>

\* seams_record.reverse(), between the two loops
ReverseRecord ==
    /\ pc = "reverse"
    /\ seams_record' = Reverse(seams_record)
    /\ count' = dx
    /\ pc' = "commit"
    /\ UNCHANGED <<im, dx, output, temp_im, seam_idx, boolmask>>

\* the correction as it would be with += 3
UpdateRemainingByThree(remaining_seam, seam) ==
    Array([row \in 1..Len(remaining_seam) |->
        IF remaining_seam[row] >= seam[row] THEN remaining_seam[row] + 3
        ELSE remaining_seam[row]])

\* remaining_seam[np.where(remaining_seam >= seam)] += 2
UpdateRemaining(remaining_seam, seam) ==
    Array([row \in 1..Len(remaining_seam) |->
        IF remaining_seam[row] >= seam[row] THEN remaining_seam[row] + 2
        ELSE remaining_seam[row]])

\* one iteration of the second loop of seams_insertion
CommitStep ==
    /\ pc = "commit"
    /\ \E seam \in {seams_record[Len(seams_record)]} :
       \E rest \in {SubSeq(seams_record, 1, Len(seams_record) - 1)} :
           IF add_seam_raises(output, seam)
           THEN /\ pc' = "raise"
                /\ UNCHANGED <<output, seams_record, count, seam_idx>>
           ELSE /\ output' = add_seam(output, seam)
                /\ seams_record' = Array([k \in 1..Len(rest) |-> UpdateRemaining(rest[k], seam)])
                /\ seam_idx' = seam
                /\ count' = count - 1
                /\ pc' = IF count = 1 THEN "done" ELSE "commit"
    /\ UNCHANGED <<im, dx, temp_im, boolmask>>

Next ==
    \/ seam_carve
    \/ RemovalStep
    \/ DiscoverStep
    \/ ReverseRecord
    \/ CommitStep

Spec == Init /\ [][Next]_vars

\* ------------------------------------------------------- claims on seam_carve
\* naive insertion: k times, search the seam of the current image and add it
RECURSIVE NaiveInsertion(_, _)
NaiveInsertion(image, k) ==
    IF k = 0 THEN image
    ELSE NaiveInsertion(add_seam(image, get_minimum_seam(image).seam_idx), k - 1)

\* a valid image and a count 1 <= dx <= w
ValidInsertion == im.h >= 1 /\ im.w >= 1 /\ dx >= 1 /\ dx <= im.w

\* the output has width w + dx, the height of the input and 3 channels
InsertionShape ==
    /\ output.h = im.h
    /\ output.w = im.w + dx
    /\ Len(output.px) = im.h
    /\ \A i \in 1..Len(output.px) :
          /\ Len(output.px[i]) = im.w + dx
          /\ \A j \in 1..Len(output.px[i]) : Len(output.px[i][j]) = Channels

\* the steps an insertion still has to take: dx searches, the reversal and
\* dx commits
StepsLeft ==
    CASE pc = "seam_carve" -> 2 * dx + 2
      [] pc = "discover" -> count + 1 + dx
      [] pc = "reverse" -> 1 + dx
      [] pc = "commit" -> count
      [] OTHER -> 0

\* C3: for a valid image of width w and 1 <= dx <= w, seams_insertion never
\* raises and completes (every step lands where a next step is defined or
\* at the end, and leaves one step less to take), and at the end the output
\* has width w + dx, the height of the input and 3 channels.
C3_InsertionGrowsWidth ==
    [][ValidInsertion =>
          /\ pc' \in {"discover", "reverse", "commit", "done"}
          /\ StepsLeft' = StepsLeft - 1
          /\ pc' = "done" <=> StepsLeft' = 0
          /\ pc' = "done" => InsertionShape']_vars

\* 3 seams inserted into an image of 2 rows and 3 columns
C3_Witness ==
    /\ pc = "done"
    /\ dx = 3
    /\ im.h = 2
    /\ im.w = 3
    /\ output.w = 6

\* C5: when h > 0, w + dx > 0 and dx <= w do not all hold, seam_carve stops
\* at its assertion: no seam is searched, removed or inserted and no output
\* image is produced.
C5_RejectedBeforeAnyStep ==
    ~(im.h > 0 /\ im.w + dx > 0 /\ dx <= im.w) =>
        /\ pc \in {"seam_carve", "AssertionError"}
        /\ output = NoImage
        /\ temp_im = NoImage
        /\ seams_record = <<>>
        /\ seam_idx = <<>>
        /\ boolmask = <<>>
        /\ count = 0

\* dx = -width on a valid image, rejected
C5_Witness ==
    /\ pc = "AssertionError"
    /\ im.h >= 1
    /\ im.w >= 2
    /\ dx = -im.w

\* C7 as stated: batched insertion (seams_insertion) yields the image naive
\* insertion yields, for every count dx >= 1.
C7_Original ==
    (pc = "done" /\ dx >= 1) => output = NaiveInsertion(im, dx)

\* C7 amended: batched insertion yields the image naive insertion yields
\* when one seam is inserted (dx = 1).
C7_SingleSeamMatchesNaive ==
    (pc = "done" /\ dx = 1) => output = NaiveInsertion(im, dx)

\* one seam inserted, away from column 0 in its bottom row
C7_Witness ==
    /\ pc = "done"
    /\ dx = 1
    /\ im.h >= 2
    /\ seam_idx[im.h] > 0

\* C10: whenever a seam is about to be committed, after the corrections of
\* the commits before it, the output has the input's width plus the number
\* of seams committed so far, and every entry of the seam is a column of it.
C10_CommitIndexInRange ==
    (pc = "commit" /\ seams_record # <<>>) =>
        LET j == dx - Len(seams_record)
            seam == seams_record[Len(seams_record)]
        IN  /\ output.w = im.w + j
            /\ \A row \in 1..Len(seam) : seam[row] \in 0..(im.w + j - 1)

\* the third seam of a batch, corrected twice, at the last column
C10_Witness ==
    /\ pc = "commit"
    /\ dx = 3
    /\ Len(seams_record) = 1
    /\ seams_record[1][1] = im.w + 1

====
